---- MODULE Spec2Model ----
(***************************************************************************)
(* TradingStrategy.run (main.py): pairs-rotation allocation with a nested  *)
(* SMA trend overlay.                                                      *)
(*                                                                         *)
(* Python floats are modelled as exact rationals <<num, den>> (den > 0,    *)
(* lowest terms); rounding of IEEE doubles is outside this model.  The     *)
(* square root inside statistics.stdev is never taken: dev_ratio is kept   *)
(* as its square and every comparison against a band is decided by the     *)
(* sign of the deviation and a comparison of squares, which is equivalent  *)
(* over the reals.                                                         *)
(*                                                                         *)
(* Python dict objects live in `heap`, keyed by identity, so that in-place *)
(* writes (weights[k] *= s) hit whatever object `weights` is bound to.     *)
(***************************************************************************)
EXTENDS Integers, Sequences, FiniteSets, TLC

VARIABLES pc, ohlcv, locals, heap, out, prev

vars == <<pc, ohlcv, locals, heap, out, prev>>

(***************************************************************************)
(* Bounds of the model                                                      *)
(***************************************************************************)
MaxLen == 36

MaxBetween == 2

(***************************************************************************)
(* Float arithmetic as exact rationals                                     *)
(***************************************************************************)
Abs(x) == IF x < 0 THEN -x ELSE x

RECURSIVE GCD(_, _)
GCD(a, b) == IF b = 0 THEN a ELSE GCD(b, a % b)

Norm(n, d) == LET g == GCD(Abs(n), d) IN <<n \div g, d \div g>>

float(n) == <<n, 1>>

Frac(n, d) == Norm(n, d)

RAdd(x, y) == Norm(x[1] * y[2] + y[1] * x[2], x[2] * y[2])

RSub(x, y) == Norm(x[1] * y[2] - y[1] * x[2], x[2] * y[2])

RMul(x, y) == Norm(x[1] * y[1], x[2] * y[2])

\* x / y for y # 0 (Python raises ZeroDivisionError for y = 0; closes are positive)
RDiv(x, y) == IF y[1] > 0 THEN Norm(x[1] * y[2], x[2] * y[1])
              ELSE Norm(-(x[1] * y[2]), x[2] * (-y[1]))

RLess(x, y) == x[1] * y[2] < y[1] * x[2]

\* sum(s[lo..hi]) of floats, by halves (addition of rationals is associative)
RECURSIVE RSumRange(_, _, _)
RSumRange(s, lo, hi) ==
    IF lo > hi THEN float(0)
    ELSE IF lo = hi THEN s[lo]
    ELSE LET mid == (lo + hi) \div 2 IN
         RAdd(RSumRange(s, lo, mid), RSumRange(s, mid + 1, hi))

RSum(s) == RSumRange(s, 1, Len(s))

Last(s) == s[Len(s)]

(***************************************************************************)
(* Configuration (class attributes)                                        *)
(***************************************************************************)
PAIR_ASSET_1 == "GOOG"

PAIR_ASSET_2 == "AAPL"

BASE_ASSET == "SPY"

LEVERAGED_ASSET == "TQQQ"

SMA_FAST_PERIOD == 20

SMA_SLOW_PERIOD == 32

RATIO_STD_DIVISOR == Frac(12, 10)

DEFAULT_WEIGHTS ==
    [PAIR1 |-> Frac(0, 1), PAIR2 |-> Frac(0, 1), BASE |-> Frac(8, 10), LEVER |-> Frac(2, 10)]

ROTATE_TO_PAIR2_WEIGHTS ==
    [PAIR1 |-> Frac(0, 1), PAIR2 |-> Frac(85, 100), BASE |-> Frac(10, 100), LEVER |-> Frac(5, 100)]

ROTATE_TO_PAIR1_WEIGHTS ==
    [PAIR1 |-> Frac(85, 100), PAIR2 |-> Frac(0, 1), BASE |-> Frac(10, 100), LEVER |-> Frac(5, 100)]

OVERLAY_LEVEL1_FAST_VS_SLOW == Frac(99, 100)

OVERLAY_LEVEL2_FAST_VS_SLOW == Frac(98, 100)

OVERLAY_LEVEL1_WEIGHTS ==
    [BASE |-> Frac(3, 10), LEVER |-> Frac(1, 10), PAIR_SCALE |-> Frac(1, 3)]

OVERLAY_LEVEL2_WEIGHTS ==
    [BASE |-> Frac(2, 10), LEVER |-> Frac(3, 10)]

\* The class namespace: the five dict objects every call reads through self.
ClassDicts ==
    [DEFAULT_WEIGHTS |-> DEFAULT_WEIGHTS,
     ROTATE_TO_PAIR2_WEIGHTS |-> ROTATE_TO_PAIR2_WEIGHTS,
     ROTATE_TO_PAIR1_WEIGHTS |-> ROTATE_TO_PAIR1_WEIGHTS,
     OVERLAY_LEVEL1_WEIGHTS |-> OVERLAY_LEVEL1_WEIGHTS,
     OVERLAY_LEVEL2_WEIGHTS |-> OVERLAY_LEVEL2_WEIGHTS]

assets == <<PAIR_ASSET_1, PAIR_ASSET_2, BASE_ASSET, LEVERAGED_ASSET>>

AssetSet == {assets[i] : i \in 1..Len(assets)}

\* dict.get(key, default)
Get(d, key, default) == IF key \in DOMAIN d THEN d[key] ELSE default

\* TargetAllocation({})
EmptyAllocation == [t \in {} |-> float(0)]

\* An empty frame: no local of run is bound yet.
NoLocals == [n \in {} |-> 0]

(***************************************************************************)
(* Helpers of run                                                          *)
(***************************************************************************)
\* The dict literal _materialize_weights builds from a template dict.
MaterializedDict(template) ==
    (PAIR_ASSET_1 :> Get(template, "PAIR1", float(0)))
    @@ (PAIR_ASSET_2 :> Get(template, "PAIR2", float(0)))
    @@ (BASE_ASSET :> Get(template, "BASE", float(0)))
    @@ (LEVERAGED_ASSET :> Get(template, "LEVER", float(0)))

\* Memoising variant: one materialised dict object per template, reused by
\* every later call.
materialize_weights_memo(h, template) ==
    LET slot == "memo:" \o template IN
    [ref |-> slot,
     heap |-> IF slot \in DOMAIN h THEN h ELSE (slot :> MaterializedDict(h[template])) @@ h]

\* Variant that leaves out the legs whose template weight is zero.
materialize_weights_sparse(h, template) ==
    LET full == MaterializedDict(h[template])
        keep == {t \in DOMAIN full : full[t] # float(0)} IN
    [ref |-> "new", heap |-> ("new" :> [t \in keep |-> full[t]]) @@ h]

\* self._materialize_weights(self.<template>): a fresh dict object on every
\* call.  `template` names the class dict; the result is the new heap and the
\* reference to the new object.  The object a previous call of the same
\* invocation created is no longer referenced when this one is bound to
\* `weights`, so the one slot "new" stands for the fresh identity.
materialize_weights(h, template) ==
    [ref |-> "new", heap |-> ("new" :> MaterializedDict(h[template])) @@ h]

\* len(ohlcv) < SMA_SLOW_PERIOD in place of the literal floor.
TooShort_slow(data) == Len(data) < SMA_SLOW_PERIOD

\* len(ohlcv) < 4
TooShort(data) == Len(data) < 4

\* The comprehension restricted to the SMA_SLOW_PERIOD most recent bars.
RatioSeries_window(data) ==
    LET n == Len(data)
        k == IF n < SMA_SLOW_PERIOD THEN n ELSE SMA_SLOW_PERIOD IN
    [i \in 1..k |->
        RDiv(float(data[n - k + i][PAIR_ASSET_1].close),
             float(data[n - k + i][PAIR_ASSET_2].close))]

\* [ohlcv[i][P1]["close"] / ohlcv[i][P2]["close"] for i in range(len(ohlcv))]
RatioSeries(data) ==
    [i \in 1..Len(data) |->
        RDiv(float(data[i][PAIR_ASSET_1].close), float(data[i][PAIR_ASSET_2].close))]

\* sum(ratio) / len(ratio)
Mean(s) == RDiv(RSum(s), float(Len(s)))

\* statistics.variance: sum((x - mean)^2) / (n - 1); stdev is its square root.
Variance(s) ==
    LET m == Mean(s)
        sq == [i \in 1..Len(s) |-> RMul(RSub(s[i], m), RSub(s[i], m))] IN
    RDiv(RSum(sq), float(Len(s) - 1))

\* (dev_ratio / RATIO_STD_DIVISOR)^2: the squared half-width of the band.
HalfWidthSq(var) == RDiv(var, RMul(RATIO_STD_DIVISOR, RATIO_STD_DIVISOR))

\* x > mean + dev / RATIO_STD_DIVISOR
AboveUpper(x, mean, hw2) ==
    /\ RLess(mean, x)
    /\ RLess(hw2, RMul(RSub(x, mean), RSub(x, mean)))

\* x < mean - dev / RATIO_STD_DIVISOR
BelowLower(x, mean, hw2) ==
    /\ RLess(x, mean)
    /\ RLess(hw2, RMul(RSub(mean, x), RSub(mean, x)))

\* x == mean + dev / RATIO_STD_DIVISOR
OnUpper(x, mean, hw2) ==
    /\ ~RLess(x, mean)
    /\ hw2 = RMul(RSub(x, mean), RSub(x, mean))

\* x == mean - dev / RATIO_STD_DIVISOR
OnLower(x, mean, hw2) ==
    /\ ~RLess(mean, x)
    /\ hw2 = RMul(RSub(mean, x), RSub(mean, x))

\* The rotation with >= and <= in place of > and <.
Rotation_inclusive(x, mean, hw2) ==
    IF AboveUpper(x, mean, hw2) \/ OnUpper(x, mean, hw2) THEN "ROTATE_TO_PAIR2_WEIGHTS"
    ELSE IF BelowLower(x, mean, hw2) \/ OnLower(x, mean, hw2) THEN "ROTATE_TO_PAIR1_WEIGHTS"
    ELSE "DEFAULT_WEIGHTS"

\* if ratio[-1] > upper_band: ... elif ratio[-1] < lower_band: ... (else the
\* default materialised before the if is kept)
Rotation(x, mean, hw2) ==
    IF AboveUpper(x, mean, hw2) THEN "ROTATE_TO_PAIR2_WEIGHTS"
    ELSE IF BelowLower(x, mean, hw2) THEN "ROTATE_TO_PAIR1_WEIGHTS"
    ELSE "DEFAULT_WEIGHTS"

\* The moving-average collaborator: one trailing mean per day that has a
\* full window of `length` days, the empty series for a shorter history.
RECURSIVE CloseSum(_, _, _, _)
CloseSum(ticker, data, from, to) ==
    IF from > to THEN 0
    ELSE IF from = to THEN data[from][ticker].close
    ELSE LET mid == (from + to) \div 2 IN
         CloseSum(ticker, data, from, mid) + CloseSum(ticker, data, mid + 1, to)

SMA(ticker, data, length) ==
    IF Len(data) < length THEN <<>>
    ELSE [i \in 1..(Len(data) - length + 1) |->
            RDiv(float(CloseSum(ticker, data, i, i + length - 1)), float(length))]

\* `and` in place of `or` in the emptiness test.
SeriesMissing_both(fast, slow) == fast = <<>> /\ slow = <<>>

\* not ma_fast_series or not ma_slow_series
SeriesMissing(fast, slow) == fast = <<>> \/ slow = <<>>

\* ma_fast <= LEVEL1 * ma_slow in place of <.
Level1_inclusive(ma_fast, ma_slow) ==
    ~RLess(RMul(OVERLAY_LEVEL1_FAST_VS_SLOW, ma_slow), ma_fast)

\* ma_fast < self.OVERLAY_LEVEL1_FAST_VS_SLOW * ma_slow
Level1(ma_fast, ma_slow) == RLess(ma_fast, RMul(OVERLAY_LEVEL1_FAST_VS_SLOW, ma_slow))

\* The level-2 test against a 0.90 multiplier.
Level2_deep(ma_fast, ma_slow) == RLess(ma_fast, RMul(Frac(90, 100), ma_slow))

\* ma_fast < self.OVERLAY_LEVEL2_FAST_VS_SLOW * ma_slow
Level2(ma_fast, ma_slow) == RLess(ma_fast, RMul(OVERLAY_LEVEL2_FAST_VS_SLOW, ma_slow))

\* The scale read under a key the level-1 table does not have: the 1.0 default.
pair_scale_default(h) == Get(h["OVERLAY_LEVEL1_WEIGHTS"], "PAIRSCALE", float(1))

\* float(self.OVERLAY_LEVEL1_WEIGHTS.get("PAIR_SCALE", 1.0))
pair_scale(h) == Get(h["OVERLAY_LEVEL1_WEIGHTS"], "PAIR_SCALE", float(1))

\* The overlay with the second leg's scaling line left out.
OverlayWrites_one_leg(h, w, ma_fast, ma_slow) ==
    IF Level1(ma_fast, ma_slow) THEN
        LET w1 == [w EXCEPT ![PAIR_ASSET_1] = RMul(@, pair_scale(h)),
                            ![BASE_ASSET] = h["OVERLAY_LEVEL1_WEIGHTS"]["BASE"],
                            ![LEVERAGED_ASSET] = h["OVERLAY_LEVEL1_WEIGHTS"]["LEVER"]] IN
        IF Level2(ma_fast, ma_slow) THEN
            [w1 EXCEPT ![BASE_ASSET] = h["OVERLAY_LEVEL2_WEIGHTS"]["BASE"],
                       ![LEVERAGED_ASSET] = h["OVERLAY_LEVEL2_WEIGHTS"]["LEVER"]]
        ELSE w1
    ELSE w

\* The body of `if ma_fast < LEVEL1 * ma_slow:` applied to the dict w.
OverlayWrites(h, w, ma_fast, ma_slow) ==
    IF Level1(ma_fast, ma_slow) THEN
        LET w1 == [w EXCEPT ![PAIR_ASSET_1] = RMul(@, pair_scale(h)),
                            ![PAIR_ASSET_2] = RMul(@, pair_scale(h)),
                            ![BASE_ASSET] = h["OVERLAY_LEVEL1_WEIGHTS"]["BASE"],
                            ![LEVERAGED_ASSET] = h["OVERLAY_LEVEL1_WEIGHTS"]["LEVER"]] IN
        IF Level2(ma_fast, ma_slow) THEN
            [w1 EXCEPT ![BASE_ASSET] = h["OVERLAY_LEVEL2_WEIGHTS"]["BASE"],
                       ![LEVERAGED_ASSET] = h["OVERLAY_LEVEL2_WEIGHTS"]["LEVER"]]
        ELSE w1
    ELSE w

(***************************************************************************)
(* Price histories supplied by the caller                                  *)
(***************************************************************************)
\* <<close of PAIR_ASSET_1, close of PAIR_ASSET_2>>
PairQuotes == {<<2, 1>>, <<3, 1>>, <<5, 2>>}

\* How many of the most recent bars carry the newer pair quote.
PairRecent == {0, 1, 21}

\* <<older BASE_ASSET close, close over the SMA_FAST_PERIOD most recent bars>>:
\* flat, rising, fast = 0.99 slow, level 1 only, fast = 0.98 slow, level 2.
BaseMoves == {<<100, 100>>, <<100, 110>>, <<305, 297>>, <<100, 97>>, <<155, 147>>, <<100, 90>>}

Bar(quote, base) ==
    (PAIR_ASSET_1 :> [close |-> quote[1]])
    @@ (PAIR_ASSET_2 :> [close |-> quote[2]])
    @@ (BASE_ASSET :> [close |-> base])
    @@ (LEVERAGED_ASSET :> [close |-> base])

History(n, kp, qOld, qNew, move) ==
    [i \in 1..n |->
        Bar(IF i > n - kp THEN qNew ELSE qOld,
            IF i > n - SMA_FAST_PERIOD THEN move[2] ELSE move[1])]

(***************************************************************************)
(* State machine                                                           *)
(***************************************************************************)
Init ==
    /\ pc = "idle"
    /\ ohlcv = <<>>
    /\ locals = NoLocals
    /\ heap = ClassDicts
    /\ out = EmptyAllocation
    /\ prev = <<>>

\* run(data) is entered: ohlcv = data["ohlcv"]
Call(h) ==
    /\ pc = "idle"
    /\ pc' = "gate"
    /\ ohlcv' = h
    /\ locals' = NoLocals
    /\ out' = EmptyAllocation
    /\ UNCHANGED <<heap, prev>>

\* if len(ohlcv) < 4: return TargetAllocation({})
Gate ==
    /\ pc = "gate"
    /\ IF TooShort(ohlcv)
       THEN pc' = "done" /\ out' = EmptyAllocation
       ELSE pc' = "ratio" /\ out' = out
    /\ UNCHANGED <<ohlcv, locals, heap, prev>>

\* ratio, mean_ratio, dev_ratio and the two bands
RatioStats ==
    /\ pc = "ratio"
    /\ LET ratio == RatioSeries(ohlcv)
           var == Variance(ratio) IN
       locals' = [ratio |-> ratio,
                  mean_ratio |-> Mean(ratio),
                  dev_ratio_sq |-> var,
                  band_sq |-> HalfWidthSq(var)]
    /\ pc' = "rotate"
    /\ UNCHANGED <<ohlcv, heap, out, prev>>

\* weights = default, then the rotation branch rebinds it
Rotate ==
    /\ pc = "rotate"
    /\ LET m0 == materialize_weights(heap, "DEFAULT_WEIGHTS")
           pick == Rotation(Last(locals.ratio), locals.mean_ratio, locals.band_sq)
           m1 == IF pick = "DEFAULT_WEIGHTS" THEN m0 ELSE materialize_weights(m0.heap, pick) IN
       /\ heap' = m1.heap
       /\ locals' = [weights |-> m1.ref] @@ locals
    /\ pc' = "sma"
    /\ UNCHANGED <<ohlcv, out, prev>>

\* the two SMA calls and the emptiness return
SmaStep ==
    /\ pc = "sma"
    /\ LET fast == SMA(BASE_ASSET, ohlcv, SMA_FAST_PERIOD)
           slow == SMA(BASE_ASSET, ohlcv, SMA_SLOW_PERIOD) IN
       /\ locals' = [ma_fast_series |-> fast, ma_slow_series |-> slow] @@ locals
       /\ IF SeriesMissing(fast, slow)
          THEN pc' = "done" /\ out' = EmptyAllocation
          ELSE pc' = "overlay" /\ out' = out
    /\ UNCHANGED <<ohlcv, heap, prev>>

\* ma_fast, ma_slow, the nested overlay and return TargetAllocation(weights);
\* [-1] on an empty series raises IndexError
Overlay ==
    /\ pc = "overlay"
    /\ IF locals.ma_fast_series = <<>> \/ locals.ma_slow_series = <<>>
       THEN /\ pc' = "raised"
            /\ UNCHANGED <<locals, heap, out>>
       ELSE LET ma_fast == Last(locals.ma_fast_series)
                ma_slow == Last(locals.ma_slow_series)
                w == OverlayWrites(heap, heap[locals.weights], ma_fast, ma_slow) IN
            /\ locals' = [ma_fast |-> ma_fast, ma_slow |-> ma_slow] @@ locals
            /\ heap' = [heap EXCEPT ![locals.weights] = w]
            /\ out' = w
            /\ pc' = "done"
    /\ UNCHANGED <<ohlcv, prev>>

\* The frame is dropped; objects only the frame referenced go with it.
Collected(h) == [r \in DOMAIN h \ {"new"} |-> h[r]]

Tick(p) ==
    IF p = <<>> THEN p
    ELSE [p EXCEPT !.between = IF @ < MaxBetween THEN @ + 1 ELSE @]

\* The call is over and the caller moves on.
Return ==
    /\ pc \in {"done", "raised"}
    /\ pc' = "idle"
    /\ ohlcv' = <<>>
    /\ locals' = NoLocals
    /\ heap' = Collected(heap)
    /\ out' = EmptyAllocation
    /\ prev' = Tick(prev)

\* The call is over and the caller keeps its history and result for comparison.
ReturnKeep ==
    /\ pc = "done"
    /\ pc' = "idle"
    /\ ohlcv' = <<>>
    /\ locals' = NoLocals
    /\ heap' = Collected(heap)
    /\ out' = EmptyAllocation
    /\ prev' = [h |-> ohlcv, out |-> out, between |-> 0]

Steps == Gate \/ RatioStats \/ Rotate \/ SmaStep \/ Overlay

CallAny ==
    \E n \in 0..MaxLen, kp \in PairRecent, qOld \in PairQuotes, qNew \in PairQuotes,
       move \in BaseMoves :
        Call(History(n, kp, qOld, qNew, move))

Next == CallAny \/ Steps \/ Return

Spec == Init /\ [][Next]_vars

\* Repeated invocations on one strategy object, over a smaller set of histories.
SeqLens == {3, SMA_SLOW_PERIOD - 1, SMA_SLOW_PERIOD, MaxLen}

SeqQuotes == {<<2, 1>>, <<3, 1>>}

SeqMoves == {<<100, 100>>, <<100, 97>>, <<100, 90>>}

CallSeq ==
    \E n \in SeqLens, qOld \in SeqQuotes, qNew \in SeqQuotes, move \in SeqMoves :
        Call(History(n, 1, qOld, qNew, move))

NextSeq == CallSeq \/ Steps \/ Return \/ ReturnKeep

SpecSeq == Init /\ [][NextSeq]_vars

(***************************************************************************)
(* Properties                                                              *)
(***************************************************************************)
RLeq(x, y) == ~RLess(y, x)

\* max(4, ratioLookbackDays or 0, smaSlowPeriod); run has no lookback setting.
MinBars ==
    LET floor == 4
        lookback == 0 IN
    IF SMA_SLOW_PERIOD >= floor /\ SMA_SLOW_PERIOD >= lookback THEN SMA_SLOW_PERIOD
    ELSE IF floor >= lookback THEN floor ELSE lookback

Stages == {"ratio", "rotate", "sma", "overlay"}

\* The materialised template the rotation stage selects for the current frame.
RotationPick == Rotation(Last(locals.ratio), locals.mean_ratio, locals.band_sq)

RotationWeights == MaterializedDict(ClassDicts[RotationPick])

Returned == pc = "done" /\ "ma_fast" \in DOMAIN locals

\* maFast / maSlow against a multiplier, stated on the frame's values.
FastBelow(mult) == RLess(locals.ma_fast, RMul(mult, locals.ma_slow))

WeightSum(w) == RSum([i \in 1..Len(assets) |-> w[assets[i]]])

\* C1: a call on a history shorter than max(4, 0, SMA_SLOW_PERIOD) = 32 bars
\* ends by returning the empty allocation (it neither raises nor allocates).
C1_EmptyBelowMinBars ==
    (pc \in {"done", "raised"} /\ Len(ohlcv) < MinBars)
        => (pc = "done" /\ out = EmptyAllocation)

\* A 20..31-bar history: the floor gate passed, the fast series is non-empty
\* and the empty slow series alone produced the empty allocation.
C1_Witness ==
    /\ pc = "done"
    /\ Len(ohlcv) >= SMA_FAST_PERIOD
    /\ Len(ohlcv) < MinBars
    /\ "ma_slow_series" \in DOMAIN locals
    /\ locals.ma_fast_series # <<>>
    /\ locals.ma_slow_series = <<>>
    /\ out = EmptyAllocation

\* C2: once the gates are passed, the working weights are the rotate-to-pair2
\* template iff the last ratio is strictly above the upper band, the
\* rotate-to-pair1 template iff it is strictly below the lower band, the
\* default template otherwise; a last ratio exactly on a band (zero variance
\* included) gives the default template.
C2_StrictBands ==
    pc = "overlay" =>
        LET x == Last(locals.ratio)
            m == locals.mean_ratio
            hw2 == locals.band_sq
            w == heap[locals.weights] IN
        /\ (w = MaterializedDict(ROTATE_TO_PAIR2_WEIGHTS)) <=> AboveUpper(x, m, hw2)
        /\ (w = MaterializedDict(ROTATE_TO_PAIR1_WEIGHTS)) <=> BelowLower(x, m, hw2)
        /\ (w = MaterializedDict(DEFAULT_WEIGHTS))
              <=> (~AboveUpper(x, m, hw2) /\ ~BelowLower(x, m, hw2))
        /\ (OnUpper(x, m, hw2) \/ OnLower(x, m, hw2))
              => w = MaterializedDict(DEFAULT_WEIGHTS)

\* The last ratio sits exactly on the upper band of a series with non-zero
\* variance, and the default template was kept.
C2_Witness ==
    /\ pc = "overlay"
    /\ locals.dev_ratio_sq # float(0)
    /\ OnUpper(Last(locals.ratio), locals.mean_ratio, locals.band_sq)
    /\ heap[locals.weights] = MaterializedDict(DEFAULT_WEIGHTS)

\* C3: when 0.98 maSlow <= maFast < 0.99 maSlow the result has both pair
\* weights equal to the rotation-stage weights times 1/3, base 0.3 and
\* leveraged 0.1, for every rotation template.
C3_Level1Only ==
    (Returned /\ FastBelow(Frac(99, 100)) /\ ~FastBelow(Frac(98, 100))) =>
        /\ out[PAIR_ASSET_1] = RMul(RotationWeights[PAIR_ASSET_1], Frac(1, 3))
        /\ out[PAIR_ASSET_2] = RMul(RotationWeights[PAIR_ASSET_2], Frac(1, 3))
        /\ out[BASE_ASSET] = Frac(3, 10)
        /\ out[LEVERAGED_ASSET] = Frac(1, 10)

\* Level 1 only, on top of a rotation into PAIR_ASSET_2: 0.85 / 3 = 17/60.
C3_Witness ==
    /\ Returned
    /\ FastBelow(Frac(99, 100))
    /\ ~FastBelow(Frac(98, 100))
    /\ RotationPick = "ROTATE_TO_PAIR2_WEIGHTS"
    /\ out[PAIR_ASSET_2] = Frac(17, 60)

\* C4: when maFast < 0.98 maSlow the level-1 condition holds too, and the
\* result has base 0.2, leveraged 0.3 and each pair weight equal to the
\* rotation-stage weight times 1/3 (scaled once, never unscaled).
C4_Level2 ==
    (Returned /\ FastBelow(Frac(98, 100))) =>
        /\ FastBelow(Frac(99, 100))
        /\ out[BASE_ASSET] = Frac(2, 10)
        /\ out[LEVERAGED_ASSET] = Frac(3, 10)
        /\ out[PAIR_ASSET_1] = RMul(RotationWeights[PAIR_ASSET_1], Frac(1, 3))
        /\ out[PAIR_ASSET_2] = RMul(RotationWeights[PAIR_ASSET_2], Frac(1, 3))

\* Level 2 on top of a rotation into PAIR_ASSET_1.
C4_Witness ==
    /\ Returned
    /\ FastBelow(Frac(98, 100))
    /\ RotationPick = "ROTATE_TO_PAIR1_WEIGHTS"
    /\ out[PAIR_ASSET_1] = Frac(17, 60)
    /\ out[BASE_ASSET] = Frac(2, 10)

\* C5: when maFast >= 0.99 maSlow (equality included) the result is the
\* materialised template of the rotation stage, all four weights untouched.
C5_NoOverlay ==
    (Returned /\ ~FastBelow(Frac(99, 100))) => out = RotationWeights

\* maFast is exactly 0.99 maSlow and the rotate-to-pair2 template came out whole.
C5_Witness ==
    /\ Returned
    /\ locals.ma_fast = RMul(Frac(99, 100), locals.ma_slow)
    /\ RotationPick = "ROTATE_TO_PAIR2_WEIGHTS"
    /\ out = MaterializedDict(ROTATE_TO_PAIR2_WEIGHTS)

\* C6: every result is the empty mapping or has exactly the four configured
\* instruments as keys, each with a non-negative weight.
C6_KeysAllOrNone ==
    pc = "done" =>
        \/ out = EmptyAllocation
        \/ /\ DOMAIN out = AssetSet
           /\ \A t \in AssetSet : RLeq(float(0), out[t])

\* A non-empty result in which a leg with weight zero is still a key.
C6_Witness ==
    /\ pc = "done"
    /\ DOMAIN out = AssetSet
    /\ out[PAIR_ASSET_1] = float(0)
    /\ out[PAIR_ASSET_2] # float(0)

\* C7: two calls with the same history return the same mapping whatever ran
\* in between; the class-level dicts keep their initial contents and no other
\* object outlives a call.
C7_NoCarriedState ==
    /\ \A name \in DOMAIN ClassDicts : heap[name] = ClassDicts[name]
    /\ DOMAIN heap \subseteq (DOMAIN ClassDicts \cup {"new"})
    /\ (pc = "done" /\ prev # <<>>) => (prev.h = ohlcv => out = prev.out)

\* The same history again, after other calls, with the level-1 in-place
\* scaling applied in both calls.
C7_Witness ==
    /\ pc = "done"
    /\ prev # <<>>
    /\ prev.between >= 1
    /\ prev.h = ohlcv
    /\ "ma_fast" \in DOMAIN locals
    /\ FastBelow(Frac(99, 100))
    /\ out[PAIR_ASSET_2] = Frac(17, 60)
    /\ out = prev.out

\* Lookback lengths a rolling mode would be configured with.
C8_Lookbacks == {SMA_FAST_PERIOD, SMA_SLOW_PERIOD}

\* C8 as stated: with a rolling lookback L the ratio series covers only the
\* min(L, len) most recent bars.  run reads no lookback setting, so what it
\* computes is what it computes under every configured L.
C8_RollingLookback ==
    pc = "rotate" =>
        \A L \in C8_Lookbacks :
            Len(locals.ratio) = (IF L < Len(ohlcv) THEN L ELSE Len(ohlcv))

\* C8 amended: the ratio series has one entry per bar of the entire history,
\* oldest first, and the moving averages are taken over the entire history
\* as well.
C8_FullHistoryOnly ==
    /\ "ratio" \in DOMAIN locals =>
        /\ Len(locals.ratio) = Len(ohlcv)
        /\ \A i \in 1..Len(ohlcv) :
            locals.ratio[i] = Frac(ohlcv[i][PAIR_ASSET_1].close, ohlcv[i][PAIR_ASSET_2].close)
        /\ RMul(locals.mean_ratio, float(Len(ohlcv))) = RSum(locals.ratio)
    /\ "ma_slow_series" \in DOMAIN locals =>
        /\ Len(locals.ma_fast_series)
             = (IF Len(ohlcv) < SMA_FAST_PERIOD THEN 0 ELSE Len(ohlcv) - SMA_FAST_PERIOD + 1)
        /\ Len(locals.ma_slow_series)
             = (IF Len(ohlcv) < SMA_SLOW_PERIOD THEN 0 ELSE Len(ohlcv) - SMA_SLOW_PERIOD + 1)

\* A history longer than every lookback whose oldest bar differs from the
\* newest: the oldest bar is in the series.
C8_Witness ==
    /\ Returned
    /\ Len(ohlcv) > SMA_SLOW_PERIOD
    /\ Len(locals.ratio) = Len(ohlcv)
    /\ locals.ratio[1] # Last(locals.ratio)

\* C9: in every non-empty result each weight lies in [0, 1] and the four sum
\* to at most 1, strictly below 1 when the level-1 overlay triggered.
C9_NeverOverAllocated ==
    (pc = "done" /\ out # EmptyAllocation) =>
        /\ \A t \in DOMAIN out : RLeq(float(0), out[t]) /\ RLeq(out[t], float(1))
        /\ RLeq(WeightSum(out), float(1))
        /\ FastBelow(Frac(99, 100)) => RLess(WeightSum(out), float(1))

\* Level 2 on a rotated template: 17/60 + 0.2 + 0.3 = 47/60.
C9_Witness ==
    /\ Returned
    /\ FastBelow(Frac(98, 100))
    /\ WeightSum(out) = Frac(47, 60)

\* C10 as stated: on a history shorter than max(4, 0, SMA_SLOW_PERIOD) no
\* later component runs, so no local of the ratio, rotation or
\* moving-average steps is ever bound.
C10_GateBeforeAnyStep ==
    Len(ohlcv) < MinBars => locals = NoLocals

\* C10 amended: only the 4-bar floor is tested before any computation.  Below
\* 4 bars nothing else runs; from 4 bars up to SMA_SLOW_PERIOD - 1 the empty
\* allocation is returned after the ratio statistics, the rotation and the
\* moving-average step have run, and before the overlay.
C10_FloorGateOnly ==
    /\ Len(ohlcv) < 4 => (locals = NoLocals /\ pc \notin Stages)
    /\ (pc = "done" /\ Len(ohlcv) >= 4 /\ Len(ohlcv) < MinBars) =>
        /\ out = EmptyAllocation
        /\ {"ratio", "mean_ratio", "weights", "ma_fast_series", "ma_slow_series"}
             \subseteq DOMAIN locals
        /\ "ma_fast" \notin DOMAIN locals

\* Four bars: empty result with the ratio, rotation and SMA locals bound.
C10_Witness ==
    /\ pc = "done"
    /\ Len(ohlcv) = 4
    /\ out = EmptyAllocation
    /\ "weights" \in DOMAIN locals
    /\ "ma_slow_series" \in DOMAIN locals

====
